---- MODULE Spec2Model ----
(***************************************************************************)
(* Model of the stock-widget MCP server (src/server.py): the widget        *)
(* catalogue, its two lookup tables, the input schema StockInput and the   *)
(* request handlers (list tools / resources / templates, read resource,    *)
(* call tool).                                                             *)
(*                                                                         *)
(* Encoding of Python values                                               *)
(*   None            the record [py |-> "None"]                            *)
(*   str             a TLA+ string; an f-string or static text shown to    *)
(*                   the client is the sequence of its pieces (literal     *)
(*                   part, interpolated parts), so that "contains" is      *)
(*                   expressible                                           *)
(*   other scalars   [type |-> "int", value |-> 1]; a str argument value   *)
(*                   is [type |-> "str", value |-> "AAPL"]                 *)
(*   dict (request)  [dict |-> <<k1, v1>>, <<k2, v2>>, ...] in insertion   *)
(*                   order, keys distinct                                  *)
(*   dict (meta)     a function from the keys to the values                *)
(*   float, 2 places an integer number of hundredths                       *)
(***************************************************************************)
EXTENDS Integers, Sequences, FiniteSets, TLC

VARIABLES
    assets,          \* ASSETS_DIR: component name -> text of its .html file
    widgets,         \* the module-level list `widgets`
    WIDGETS_BY_ID,   \* identifier   -> StockWidget
    WIDGETS_BY_URI,  \* template_uri -> StockWidget
    phase,           \* "import" while the module body runs, then "serving"
    request,         \* the request handled last
    result,          \* the result returned for it
    mockCalls        \* calls of _mock_stock_price made while handling it

vars == <<assets, widgets, WIDGETS_BY_ID, WIDGETS_BY_URI, phase, request,
          result, mockCalls>>

catalogue == <<assets, widgets, WIDGETS_BY_ID, WIDGETS_BY_URI, phase>>

None == [py |-> "None"]

Range(s) == {s[i] : i \in DOMAIN s}

(***************************************************************************)
(* Bounds of the model.                                                    *)
(***************************************************************************)
\* longest arguments mapping a client sends
MaxArgs == 2
\* longest entity list given to the lookup-table construction
MaxWidgets == 3

\* texts an asset file may hold
HtmlTexts == {"<div id=root-a></div>", "<div id=root-b></div>"}

(***************************************************************************)
(* Widget definition                                                       *)
(***************************************************************************)
StockWidget(identifier, title, template_uri, invoking, invoked, html, response_text) ==
    [identifier |-> identifier, title |-> title, template_uri |-> template_uri,
     invoking |-> invoking, invoked |-> invoked, html |-> html,
     response_text |-> response_text]

ComponentNames == {"stock-quote", "stock-chart", "portfolio"}

\* The file <component_name>.html exists in every state the server reaches
\* (a missing file raises at import and no server starts); the text is
\* returned as read.
_load_widget_html(files, component_name) == files[component_name]

widgetList(files) ==
    << StockWidget("stock-quote", "Show Stock Quote",
                   "ui://widget/stock-quote.html",
                   "Fetching stock price", "Stock price loaded",
                   _load_widget_html(files, "stock-quote"),
                   "Rendered stock quote!"),
       StockWidget("stock-chart", "Show Stock Chart",
                   "ui://widget/stock-chart.html",
                   "Loading stock chart", "Stock chart loaded",
                   _load_widget_html(files, "stock-chart"),
                   "Rendered stock chart!"),
       StockWidget("portfolio-view", "View Portfolio",
                   "ui://widget/portfolio",
                   "Opening portfolio", "Portfolio displayed",
                   _load_widget_html(files, "portfolio"),
                   "Rendered portfolio view!") >>

MIME_TYPE == "text/html+skybridge"

\* WIDGETS_BY_ID = {widget.identifier: widget for widget in widgets}.
\* A key met again replaces the value stored for it, so the last widget
\* with an identifier is the one the table keeps.
BuildById(ws) ==
    [k \in {ws[i].identifier : i \in DOMAIN ws} |->
        LET last == CHOOSE i \in DOMAIN ws :
                        /\ ws[i].identifier = k
                        /\ \A j \in DOMAIN ws : ws[j].identifier = k => j <= i
        IN  ws[last]]

\* WIDGETS_BY_URI = {widget.template_uri: widget for widget in widgets}
BuildByUri(ws) ==
    [k \in {ws[i].template_uri : i \in DOMAIN ws} |->
        LET last == CHOOSE i \in DOMAIN ws :
                        /\ ws[i].template_uri = k
                        /\ \A j \in DOMAIN ws : ws[j].template_uri = k => j <= i
        IN  ws[last]]

\* dict.get(key): the value, or None
DictGet(d, k) == IF k \in DOMAIN d THEN d[k] ELSE None

EmptyDict == [k \in {} |-> None]


(***************************************************************************)
(* Input schema                                                            *)
(***************************************************************************)
PyStr(s) == [type |-> "str", value |-> s]
PyInt(n) == [type |-> "int", value |-> n]

Dict(items) == [dict |-> items]

Keys(d) == {d.dict[i][1] : i \in DOMAIN d.dict}
HasKey(d, k) == k \in Keys(d)
Item(d, k) == LET i == CHOOSE j \in DOMAIN d.dict : d.dict[j][1] = k
              IN  d.dict[i][2]

\* One entry of ValidationError.errors(): its type, its location and its
\* message (the input echo and the documentation url are left out).
ErrorDetails(type, loc, msg) == [type |-> type, loc |-> loc, msg |-> msg]

\* The declared field: symbol: str = Field(...), required, no coercion of a
\* non-string to a string.
SymbolErrors(d) ==
    IF ~HasKey(d, "symbol")
    THEN << ErrorDetails("missing", "symbol", "Field required") >>
    ELSE IF Item(d, "symbol").type # "str"
    THEN << ErrorDetails("string_type", "symbol", "Input should be a valid string") >>
    ELSE << >>

\* model_config = ConfigDict(extra="forbid"): every key that is not a
\* declared field is an error, in the order of the mapping.
IsExtra(item) == item[1] # "symbol"

ExtraErrors(d) ==
    LET extras == SelectSeq(d.dict, IsExtra)
    IN  [i \in DOMAIN extras |->
            ErrorDetails("extra_forbidden", extras[i][1],
                         "Extra inputs are not permitted")]

\* Validation that stops at the first error instead of collecting them all.
model_validate_first_error(d) ==
    LET errs == SymbolErrors(d) \o ExtraErrors(d)
    IN  IF errs = << >>
        THEN [raised |-> "no", payload |-> [symbol |-> Item(d, "symbol").value]]
        ELSE [raised |-> "ValidationError", errors |-> << Head(errs) >>]

\* StockInput.model_validate(arguments): the model, or ValidationError
\* carrying the errors of the declared field followed by those of the
\* extra keys.
StockInput_model_validate(d) ==
    LET errs == SymbolErrors(d) \o ExtraErrors(d)
    IN  IF errs = << >>
        THEN [raised |-> "no", payload |-> [symbol |-> Item(d, "symbol").value]]
        ELSE [raised |-> "ValidationError", errors |-> errs]

\* repr of one entry of exc.errors() inside the f-string
ErrorRepr(e) ==
    "{'type': '" \o e.type \o "', 'loc': ('" \o e.loc \o "',), 'msg': '"
        \o e.msg \o "'}"

(***************************************************************************)
(* MCP server: schema and metadata                                         *)
(***************************************************************************)
TOOL_INPUT_SCHEMA ==
    [type |-> "object",
     properties |->
        [symbol |-> [type |-> "string",
                     description |-> "Stock ticker symbol (e.g. AAPL, TSLA)."]],
     required |-> << "symbol" >>,
     additionalProperties |-> FALSE]

_resource_description(widget) == << widget.title, " widget markup" >>

_tool_meta(widget) ==
    ("openai/outputTemplate" :> widget.template_uri)
    @@ ("openai/toolInvocation/invoking" :> widget.invoking)
    @@ ("openai/toolInvocation/invoked" :> widget.invoked)
    @@ ("openai/widgetAccessible" :> TRUE)

_tool_invocation_meta(widget) ==
    ("openai/toolInvocation/invoking" :> widget.invoking)
    @@ ("openai/toolInvocation/invoked" :> widget.invoked)

(***************************************************************************)
(* Result types of mcp.types, with their defaults                          *)
(***************************************************************************)
TextContent(text) == [type |-> "text", text |-> text]

\* structuredContent and _meta default to None, isError to False
CallToolResult(content, structuredContent, isError, meta) ==
    [type |-> "CallToolResult", content |-> content,
     structuredContent |-> structuredContent, isError |-> isError,
     meta |-> meta]

TextResourceContents(uri, mimeType, text, meta) ==
    [uri |-> uri, mimeType |-> mimeType, text |-> text, meta |-> meta]

ReadResourceResult(contents, meta) ==
    [type |-> "ReadResourceResult", contents |-> contents, meta |-> meta]

(***************************************************************************)
(* Tool & resource listing                                                 *)
(***************************************************************************)
Tool(widget) ==
    [name |-> widget.identifier, title |-> widget.title,
     description |-> widget.title, inputSchema |-> TOOL_INPUT_SCHEMA,
     meta |-> _tool_meta(widget),
     annotations |-> [destructiveHint |-> FALSE, openWorldHint |-> FALSE,
                      readOnlyHint |-> TRUE]]

Resource(widget) ==
    [name |-> widget.title, title |-> widget.title, uri |-> widget.template_uri,
     description |-> _resource_description(widget), mimeType |-> MIME_TYPE,
     meta |-> _tool_meta(widget)]

ResourceTemplate(widget) ==
    [name |-> widget.title, title |-> widget.title,
     uriTemplate |-> widget.template_uri,
     description |-> _resource_description(widget), mimeType |-> MIME_TYPE,
     meta |-> _tool_meta(widget)]

\* A listing that enumerates the widgets from the last to the first.
_list_tools_reversed(ws) ==
    [type |-> "ListToolsResult",
     tools |-> [i \in DOMAIN ws |-> Tool(ws[Len(ws) + 1 - i])]]

_list_tools(ws) ==
    [type |-> "ListToolsResult", tools |-> [i \in DOMAIN ws |-> Tool(ws[i])]]

_list_resources(ws) ==
    [type |-> "ListResourcesResult",
     resources |-> [i \in DOMAIN ws |-> Resource(ws[i])]]

_list_resource_templates(ws) ==
    [type |-> "ListResourceTemplatesResult",
     resourceTemplates |-> [i \in DOMAIN ws |-> ResourceTemplate(ws[i])]]

(***************************************************************************)
(* Resource handling                                                       *)
(***************************************************************************)
\* A read that raises for an unknown uri instead of returning a result.
_handle_read_resource_raises(req) ==
    LET widget == DictGet(WIDGETS_BY_URI, req.uri)
    IN  IF widget = None
        THEN [type |-> "ValueError", args |-> << "Unknown resource: ", req.uri >>]
        ELSE ReadResourceResult(
                 << TextResourceContents(widget.template_uri, MIME_TYPE,
                                         widget.html, _tool_meta(widget)) >>,
                 None)

\* A read that serves the markup of the first widget for every known uri.
_handle_read_resource_first_html(req) ==
    LET widget == DictGet(WIDGETS_BY_URI, req.uri)
    IN  IF widget = None
        THEN ReadResourceResult(
                 << >>, ("error" :> << "Unknown resource: ", req.uri >>))
        ELSE ReadResourceResult(
                 << TextResourceContents(widget.template_uri, MIME_TYPE,
                                         widgets[1].html, _tool_meta(widget)) >>,
                 None)

\* req.uri is the string str(req.params.uri) yields.
_handle_read_resource(req) ==
    LET widget == DictGet(WIDGETS_BY_URI, req.uri)
    IN  IF widget = None
        THEN ReadResourceResult(
                 << >>, ("error" :> << "Unknown resource: ", req.uri >>))
        ELSE ReadResourceResult(
                 << TextResourceContents(widget.template_uri, MIME_TYPE,
                                         widget.html, _tool_meta(widget)) >>,
                 None)

(***************************************************************************)
(* Tool execution                                                          *)
(***************************************************************************)
\* round(random.uniform(50, 500), 2) and round(random.uniform(-5, 5), 2),
\* in hundredths
PriceLow == 5000
PriceHigh == 50000
ChangeHigh == 500

\* the draws followed: both ends of each range and a value inside it
PriceDraws == {PriceLow, (PriceLow + PriceHigh) \div 2, PriceHigh}
ChangeDraws == {-ChangeHigh, 0, ChangeHigh}
Draws == [price : PriceDraws, change : ChangeDraws]

\* The symbol is not used; the two values are what random.uniform gave.
_mock_stock_price(symbol, draw) == [price |-> draw.price, change |-> draw.change]

\* An unknown-tool failure that also carries a structured payload.
UnknownToolResult_with_payload(name) ==
    [result |->
        CallToolResult(<< TextContent(<< "Unknown tool: ", name >>) >>,
                       [error |-> "unknown tool"], TRUE, None),
     mockCalls |-> 0]

\* lines 256-266: the name is not a key of WIDGETS_BY_ID
UnknownToolResult(name) ==
    [result |->
        CallToolResult(<< TextContent(<< "Unknown tool: ", name >>) >>,
                       None, TRUE, None),
     mockCalls |-> 0]

\* The handler without its except clause: ValidationError leaves it.
ValidationError_uncaught(widget, errors) ==
    [result |-> [type |-> "ValidationError", errors |-> errors],
     mockCalls |-> 0]

\* lines 271-282: except ValidationError as exc
ValidationErrorResult(widget, errors) ==
    [result |->
        CallToolResult(
            << TextContent(<< "Input validation error: " >>
                           \o [i \in DOMAIN errors |-> ErrorRepr(errors[i])]) >>,
            None, TRUE, None),
     mockCalls |-> 0]

\* A success whose text is taken from the wrong field of the widget.
RenderedResult_invoked_text(widget, payload, draw) ==
    LET stock_data == _mock_stock_price(payload.symbol, draw)
        meta == _tool_invocation_meta(widget)
    IN  [result |->
            CallToolResult(<< TextContent(<< widget.invoked >>) >>,
                           [symbol |-> payload.symbol,
                            price |-> stock_data.price,
                            change |-> stock_data.change],
                           FALSE, meta),
         mockCalls |-> 1]

\* lines 284-302: the validated payload goes to _mock_stock_price
RenderedResult(widget, payload, draw) ==
    LET stock_data == _mock_stock_price(payload.symbol, draw)
        meta == _tool_invocation_meta(widget)
    IN  [result |->
            CallToolResult(<< TextContent(<< widget.response_text >>) >>,
                           [symbol |-> payload.symbol,
                            price |-> stock_data.price,
                            change |-> stock_data.change],
                           FALSE, meta),
         mockCalls |-> 1]

\* arguments = req.params.arguments or {}
ArgumentsOrEmpty(arguments) ==
    IF arguments = None \/ arguments.dict = << >> THEN Dict(<< >>) ELSE arguments

\* A handler that validates the arguments before it looks the name up.
_call_tool_request_validate_first(req, draw) ==
    LET widget == DictGet(WIDGETS_BY_ID, req.name)
        validated == StockInput_model_validate(ArgumentsOrEmpty(req.arguments))
    IN  IF validated.raised = "ValidationError"
        THEN ValidationErrorResult(widget, validated.errors)
        ELSE IF widget = None
        THEN UnknownToolResult(req.name)
        ELSE RenderedResult(widget, validated.payload, draw)

\* The handler's return value and the number of calls of _mock_stock_price
\* it made.
_call_tool_request(req, draw) ==
    LET widget == DictGet(WIDGETS_BY_ID, req.name)
    IN  IF widget = None
        THEN UnknownToolResult(req.name)
        ELSE LET validated ==
                     StockInput_model_validate(ArgumentsOrEmpty(req.arguments))
             IN  IF validated.raised = "ValidationError"
                 THEN ValidationErrorResult(widget, validated.errors)
                 ELSE RenderedResult(widget, validated.payload, draw)

(***************************************************************************)
(* Requests a client sends                                                 *)
(***************************************************************************)
ListToolsRequest == [method |-> "tools/list"]
ListResourcesRequest == [method |-> "resources/list"]
ListResourceTemplatesRequest == [method |-> "resources/templates/list"]
ReadResourceRequest(uri) == [method |-> "resources/read", uri |-> uri]
CallToolRequest(name, arguments) ==
    [method |-> "tools/call", name |-> name, arguments |-> arguments]

ToolNames ==
    {"stock-quote", "stock-chart", "portfolio-view", "portfolio", "unknown-tool"}

ResourceUris ==
    {"ui://widget/stock-quote.html", "ui://widget/stock-chart.html",
     "ui://widget/portfolio", "ui://widget/does-not-exist.html"}

\* the fields a client puts in the mapping: the declared field with a
\* string or a non-string value, and two undeclared fields
ArgItems ==
    {<<"symbol", PyStr("AAPL")>>, <<"symbol", PyStr("TSLA")>>,
     <<"symbol", PyInt(1)>>, <<"extra", PyInt(1)>>, <<"query", PyStr("x")>>}

\* the mappings of at most MaxArgs keys, in every insertion order
ArgDicts ==
    {Dict(items) :
        items \in {s \in UNION {[1..n -> ArgItems] : n \in 0..MaxArgs} :
                      \A i, j \in DOMAIN s : s[i][1] = s[j][1] => i = j}}

\* req.params.arguments: a mapping, or None when the client sent none
Arguments == ArgDicts \cup {None}

(***************************************************************************)
(* The server after import: the widgets are built from the asset files and *)
(* the two lookup tables from the widgets.                                 *)
(***************************************************************************)
Init ==
    /\ assets \in [ComponentNames -> HtmlTexts]
    /\ widgets = widgetList(assets)
    /\ WIDGETS_BY_ID = BuildById(widgets)
    /\ WIDGETS_BY_URI = BuildByUri(widgets)
    /\ phase = "serving"
    /\ request = None
    /\ result = None
    /\ mockCalls = 0

ListTools ==
    /\ phase = "serving"
    /\ request' = ListToolsRequest
    /\ result' = _list_tools(widgets)
    /\ mockCalls' = 0
    /\ UNCHANGED catalogue

ListResources ==
    /\ phase = "serving"
    /\ request' = ListResourcesRequest
    /\ result' = _list_resources(widgets)
    /\ mockCalls' = 0
    /\ UNCHANGED catalogue

ListResourceTemplates ==
    /\ phase = "serving"
    /\ request' = ListResourceTemplatesRequest
    /\ result' = _list_resource_templates(widgets)
    /\ mockCalls' = 0
    /\ UNCHANGED catalogue

ReadResource(uri) ==
    /\ phase = "serving"
    /\ request' = ReadResourceRequest(uri)
    /\ result' = _handle_read_resource(ReadResourceRequest(uri))
    /\ mockCalls' = 0
    /\ UNCHANGED catalogue

CallTool(name, arguments, draw) ==
    LET out == _call_tool_request(CallToolRequest(name, arguments), draw)
    IN  /\ phase = "serving"
        /\ request' = CallToolRequest(name, arguments)
        /\ result' = out.result
        /\ mockCalls' = out.mockCalls
        /\ UNCHANGED catalogue

Next ==
    \/ ListTools
    \/ ListResources
    \/ ListResourceTemplates
    \/ \E uri \in ResourceUris : ReadResource(uri)
    \/ \E name \in ToolNames, arguments \in Arguments, draw \in Draws :
          CallTool(name, arguments, draw)

Spec == Init /\ [][Next]_vars

(***************************************************************************)
(* Construction of the lookup tables as a function of the entity list:     *)
(* the two dict comprehensions applied to any list of at most MaxWidgets   *)
(* widgets.                                                                *)
(***************************************************************************)
EntityIds == {"stock-quote", "stock-chart", "portfolio-view"}
EntityUris == {"ui://widget/stock-quote.html", "ui://widget/stock-chart.html"}
EntityTexts == {"Rendered stock quote!", "Rendered stock chart!"}

Entities ==
    {StockWidget(id, "Show Stock", uri, "Loading", "Loaded",
                 "<div id=root-a></div>", text) :
        id \in EntityIds, uri \in EntityUris, text \in EntityTexts}

EntityLists == UNION {[1..n -> Entities] : n \in 1..MaxWidgets}

InitImport ==
    /\ assets \in [ComponentNames -> {"<div id=root-a></div>"}]
    /\ widgets \in EntityLists
    /\ WIDGETS_BY_ID = EmptyDict
    /\ WIDGETS_BY_URI = EmptyDict
    /\ phase = "import"
    /\ request = None
    /\ result = None
    /\ mockCalls = 0

BuildLookupTables ==
    /\ phase = "import"
    /\ WIDGETS_BY_ID' = BuildById(widgets)
    /\ WIDGETS_BY_URI' = BuildByUri(widgets)
    /\ phase' = "serving"
    /\ UNCHANGED <<assets, widgets, request, result, mockCalls>>

NextImport ==
    \/ BuildLookupTables
    \/ \E name \in EntityIds : CallTool(name, Dict(<< <<"symbol", PyStr("AAPL")>> >>),
                                        [price |-> PriceLow, change |-> 0])
    \/ \E uri \in EntityUris : ReadResource(uri)

SpecImport == InitImport /\ [][NextImport]_vars

(***************************************************************************)
(* Properties                                                              *)
(***************************************************************************)
IsCallTool == request # None /\ request.method = "tools/call"
IsReadResource == request # None /\ request.method = "resources/read"

\* the entities of the catalogue with a given identifier / resource key
EntitiesNamed(name) == {i \in DOMAIN widgets : widgets[i].identifier = name}
EntitiesAt(uri) == {i \in DOMAIN widgets : widgets[i].template_uri = uri}

\* text content present: at least one item, every item a non-empty text
HasText(r) ==
    /\ Len(r.content) >= 1
    /\ \A i \in DOMAIN r.content :
          r.content[i].type = "text" /\ r.content[i].text # << >>

IsSuccess(r) == r.type = "CallToolResult" /\ r.isError = FALSE /\ HasText(r)
IsFailure(r) == r.type = "CallToolResult" /\ r.isError = TRUE /\ HasText(r)

HasStructuredPayload(r) ==
    "structuredContent" \in DOMAIN r /\ r.structuredContent # None

\* the arguments the validator sees, and what is wrong with them
Submitted == ArgumentsOrEmpty(request.arguments)
UndeclaredKeys == Keys(Submitted) \ {"symbol"}
SymbolMissing == "symbol" \notin Keys(Submitted)
SymbolNotString ==
    \E i \in DOMAIN Submitted.dict :
        Submitted.dict[i][1] = "symbol" /\ Submitted.dict[i][2].type # "str"
ArgumentsInvalid == UndeclaredKeys # {} \/ SymbolMissing \/ SymbolNotString

\* the text names an error of this type at this location
Describes(text, type, loc) ==
    \E i \in DOMAIN text, msg \in {"Field required",
                                   "Input should be a valid string",
                                   "Extra inputs are not permitted"} :
        text[i] = ErrorRepr(ErrorDetails(type, loc, msg))

\* C1: every CallTool request yields a CallToolResult that is exactly one of
\* Success (no error flag, text present) and Failure (error flag, text
\* present), and every ReadResource request yields a ReadResourceResult,
\* which has no error flag; no request ends in an exception.
C1_OneResultShape ==
    /\ IsCallTool =>
          /\ IsSuccess(result) \/ IsFailure(result)
          /\ ~(IsSuccess(result) /\ IsFailure(result))
    /\ IsReadResource =>
          /\ result.type = "ReadResourceResult"
          /\ "isError" \notin DOMAIN result

C1_Witness ==
    /\ IsCallTool
    /\ EntitiesNamed(request.name) # {}
    /\ ArgumentsInvalid
    /\ IsFailure(result)

\* C2: a CallTool whose name is no entity's identifier returns a Failure
\* whose text is "Unknown tool: <name>", whatever the arguments are (valid,
\* invalid or absent), and _mock_stock_price is not called.
C2_UnknownTool ==
    (IsCallTool /\ EntitiesNamed(request.name) = {}) =>
        /\ IsFailure(result)
        /\ result.content = << TextContent(<< "Unknown tool: ", request.name >>) >>
        /\ mockCalls = 0

C2_Witness ==
    /\ IsCallTool
    /\ EntitiesNamed(request.name) = {}
    /\ ArgumentsInvalid
    /\ result.content[1].text[1] = "Unknown tool: "

\* C3: a CallTool with a known identifier and invalid arguments returns a
\* Failure whose text describes every violation in the arguments (each
\* undeclared key, the missing symbol, the non-string symbol), and
\* _mock_stock_price is not called.
C3_AllViolationsReported ==
    (IsCallTool /\ EntitiesNamed(request.name) # {} /\ ArgumentsInvalid) =>
        /\ IsFailure(result)
        /\ Len(result.content) = 1
        /\ result.content[1].text[1] = "Input validation error: "
        /\ \A k \in UndeclaredKeys :
              Describes(result.content[1].text, "extra_forbidden", k)
        /\ SymbolMissing => Describes(result.content[1].text, "missing", "symbol")
        /\ SymbolNotString =>
              Describes(result.content[1].text, "string_type", "symbol")
        /\ mockCalls = 0

\* two violations of different classes in one request
C3_Witness ==
    /\ IsCallTool
    /\ EntitiesNamed(request.name) # {}
    /\ UndeclaredKeys # {}
    /\ SymbolNotString
    /\ IsFailure(result)
    /\ Len(result.content[1].text) = 3

\* C4: a CallTool with the identifier of an entity and valid arguments
\* returns a Success whose only text is the entity's response_text and whose
\* structured payload is the submitted symbol with a price and a change
\* from the ranges of the mock.
C4_RenderedSuccess ==
    (IsCallTool /\ EntitiesNamed(request.name) # {} /\ ~ArgumentsInvalid) =>
        \E i \in EntitiesNamed(request.name) :
            /\ IsSuccess(result)
            /\ result.content = << TextContent(<< widgets[i].response_text >>) >>
            /\ DOMAIN result.structuredContent = {"symbol", "price", "change"}
            /\ \E j \in DOMAIN request.arguments.dict :
                  request.arguments.dict[j] =
                      << "symbol", PyStr(result.structuredContent.symbol) >>
            /\ result.structuredContent.price \in PriceLow..PriceHigh
            /\ result.structuredContent.change \in (-ChangeHigh)..ChangeHigh
            /\ mockCalls = 1

C4_Witness ==
    /\ IsCallTool
    /\ request.name = "stock-chart"
    /\ ~ArgumentsInvalid
    /\ IsSuccess(result)
    /\ result.structuredContent.symbol = "TSLA"

\* C5 as claimed: a ReadResource with a key that is no entity's resource key
\* returns empty contents, no error flag and no error indication at all.
C5_NoErrorIndication ==
    (IsReadResource /\ EntitiesAt(request.uri) = {}) =>
        /\ result.type = "ReadResourceResult"
        /\ result.contents = << >>
        /\ "isError" \notin DOMAIN result
        /\ result.meta = None

\* C5 as amended: a ReadResource with a key that is no entity's resource key
\* returns a ReadResourceResult with empty contents and no error flag (it is
\* not a Failure), whose metadata holds the one entry "error" with the text
\* "Unknown resource: <uri>".
C5_EmptyContentsWithErrorMeta ==
    (IsReadResource /\ EntitiesAt(request.uri) = {}) =>
        /\ result.type = "ReadResourceResult"
        /\ result.contents = << >>
        /\ "isError" \notin DOMAIN result
        /\ result.meta # None
        /\ DOMAIN result.meta = {"error"}
        /\ result.meta["error"] = << "Unknown resource: ", request.uri >>

C5_Witness ==
    /\ IsReadResource
    /\ request.uri = "ui://widget/does-not-exist.html"
    /\ result.type = "ReadResourceResult"
    /\ result.contents = << >>

\* the asset file each registered widget was loaded from
ComponentOf(identifier) ==
    CASE identifier = "stock-quote" -> "stock-quote"
      [] identifier = "stock-chart" -> "stock-chart"
      [] identifier = "portfolio-view" -> "portfolio"

\* C6: for every entity e, ReadResource(e.template_uri) returns exactly one
\* contents item, whose text is the text of e's asset file as it was at
\* startup and whose uri is e.template_uri, whatever requests came before.
C6_ContentRoundTrip ==
    \A i \in DOMAIN widgets :
        (IsReadResource /\ request.uri = widgets[i].template_uri) =>
            /\ result.type = "ReadResourceResult"
            /\ Len(result.contents) = 1
            /\ result.contents[1].text = assets[ComponentOf(widgets[i].identifier)]
            /\ result.contents[1].uri = widgets[i].template_uri

\* a widget whose markup differs from the first widget's is read
C6_Witness ==
    /\ IsReadResource
    /\ request.uri = "ui://widget/portfolio"
    /\ assets["portfolio"] # assets["stock-quote"]
    /\ Len(result.contents) = 1
    /\ result.contents[1].text = assets["portfolio"]

C8_LabelsOnEveryKnownResult ==
    (IsCallTool /\ EntitiesNamed(request.name) # {}) =>
        \E i \in EntitiesNamed(request.name) :
            /\ result.meta # None
            /\ result.meta["openai/toolInvocation/invoking"] = widgets[i].invoking
            /\ result.meta["openai/toolInvocation/invoked"] = widgets[i].invoked

\* C9: a result carries a structured payload if and only if it is the
\* Success of a CallTool; no Failure, no ReadResource result and no listing
\* carries one.
C9_PayloadIffToolSuccess ==
    result # None =>
        (HasStructuredPayload(result) <=> (IsCallTool /\ IsSuccess(result)))

C9_Witness ==
    /\ IsCallTool
    /\ IsSuccess(result)
    /\ HasStructuredPayload(result)

\* what a listing shows of the catalogue, in registration order
ListedInOrder ==
    /\ request = ListToolsRequest =>
          /\ Len(result.tools) = Len(widgets)
          /\ \A i \in DOMAIN widgets :
                result.tools[i].name = widgets[i].identifier
    /\ request = ListResourcesRequest =>
          /\ Len(result.resources) = Len(widgets)
          /\ \A i \in DOMAIN widgets :
                result.resources[i].uri = widgets[i].template_uri

\* C10: no request changes the entity list or a lookup table; ListTools and
\* ListResources return one descriptor per entity in registration order,
\* and a listing repeated right after itself returns the same sequence.
C10_CatalogueReadOnly ==
    /\ [](ListedInOrder)
    /\ [][/\ UNCHANGED <<widgets, WIDGETS_BY_ID, WIDGETS_BY_URI>>
          /\ (request' = request /\ request \in {ListToolsRequest,
                                                ListResourcesRequest})
                => result' = result]_vars

C10_Witness ==
    /\ request = ListToolsRequest
    /\ Len(result.tools) = 3
    /\ result.tools[3].name = "portfolio-view"

====
